---- MODULE Spec2Model ----
(***************************************************************************)
(* A model of src/lib.rs of rust-kzg-node: the KzgWrapper engine, its      *)
(* blob validator (parse_blob_array), the two single-item processors and   *)
(* the two batch operations, which fan the items out with Rayon's          *)
(* par_iter().map(..).collect::<Result<Vec<_>>>().                          *)
(*                                                                         *)
(* Representation.                                                         *)
(*   - a byte buffer (Uint8Array, [u8; N]) is a sequence of numbers 0..255 *)
(*   - a hex String is a sequence of one-character strings, so that its    *)
(*     characters can be inspected; an error message is a TLA+ string      *)
(*     built with \o from the pieces format! puts together                 *)
(*   - Result<T> is [ok |-> TRUE, value |-> v] or                          *)
(*     [ok |-> FALSE, error |-> e]; a napi Error is [status, reason]       *)
(*   - Option::None and "no value yet" are the record NoValue              *)
(***************************************************************************)
EXTENDS Integers, Sequences, FiniteSets, TLC

(***************************************************************************)
(* Bounds of the model.  BYTES_PER_BLOB and CELLS_PER_EXT_BLOB are the     *)
(* protocol's constants scaled down (131072 and 128 in the kzg crate): the *)
(* code compares lengths with BYTES_PER_BLOB and never uses its value      *)
(* otherwise.                                                              *)
(***************************************************************************)
BYTES_PER_BLOB == 2

CELLS_PER_EXT_BLOB == 2

MaxBatch == 2

NumThreads == 2

(***************************************************************************)
(* Program constants.                                                      *)
(***************************************************************************)
BYTES_PER_COMMITMENT == 48

BYTES_PER_PROOF == 48

\* The byte values the inputs are built from.  255 stands for the leading
\* byte of a field element that is not canonical (>= the BLS modulus).
ByteValues == {0, 1, 171, 255}

\* The two engine calls the concurrency specification runs side by side.
CallIds == {"A", "B"}

Ops == {"commitment", "proofs"}

-----------------------------------------------------------------------------
(***************************************************************************)
(* Values                                                                  *)
(***************************************************************************)
NoValue == [none |-> TRUE]

IsNone(x) == "none" \in DOMAIN x

Ok(v) == [ok |-> TRUE, value |-> v]

Err(e) == [ok |-> FALSE, error |-> e]

IsOk(r) == ~IsNone(r) /\ r.ok

IsErr(r) == ~IsNone(r) /\ ~r.ok

\* napi::Error::new(status, reason)
Error(status, reason) == [status |-> status, reason |-> reason]

\* [b; n]
Fill(n, b) == [i \in 1..n |-> b]

\* All byte buffers of at most n bytes over ByteValues.
BuffersUpTo(n) == UNION {[1..k -> ByteValues] : k \in 0..n}

-----------------------------------------------------------------------------
(***************************************************************************)
(* Formatting                                                              *)
(***************************************************************************)
DecDigits == <<"0", "1", "2", "3", "4", "5", "6", "7", "8", "9">>

\* Display of a usize: its decimal digits, no sign, no padding.
RECURSIVE Display(_)
Display(n) ==
    IF n < 10 THEN DecDigits[n + 1]
    ELSE Display(n \div 10) \o DecDigits[(n % 10) + 1]

\* Debug of a String: the string between double quotes.
Debug(s) == "\"" \o s \o "\""

HexChars == <<"0", "1", "2", "3", "4", "5", "6", "7",
              "8", "9", "a", "b", "c", "d", "e", "f">>

UpperHexChars == <<"0", "1", "2", "3", "4", "5", "6", "7",
                   "8", "9", "A", "B", "C", "D", "E", "F">>

\* An encoder that writes uppercase digits.
encode_upper(bytes) ==
    [i \in 1..(2 * Len(bytes)) |->
        IF i % 2 = 1
        THEN UpperHexChars[(bytes[(i + 1) \div 2] \div 16) + 1]
        ELSE UpperHexChars[(bytes[i \div 2] % 16) + 1]]

\* hex::encode: two lowercase hex characters per byte, high nibble first.
encode(bytes) ==
    [i \in 1..(2 * Len(bytes)) |->
        IF i % 2 = 1
        THEN HexChars[(bytes[(i + 1) \div 2] \div 16) + 1]
        ELSE HexChars[(bytes[i \div 2] % 16) + 1]]

\* format!("0x{}", encode(bytes))
Format0x(bytes) == <<"0", "x">> \o encode(bytes)

-----------------------------------------------------------------------------
(***************************************************************************)
(* parse_blob_array                                                        *)
(***************************************************************************)
\* copy_from_slice into [0u8; BYTES_PER_BLOB]: byte i of the array is byte i
\* of the slice.
CopyFromSlice(slice) == [i \in 1..BYTES_PER_BLOB |-> slice[i]]

\* parse_blob_array with the length test weakened to "at least": an oversized
\* buffer is cut to size.
parse_blob_array_truncating(blob_bytes) ==
    LET slice == blob_bytes IN
    IF Len(slice) < BYTES_PER_BLOB
    THEN Err(Error("InvalidArg",
                   "Invalid blob length: expected " \o Display(BYTES_PER_BLOB)
                   \o " bytes, got " \o Display(Len(slice)) \o " bytes"))
    ELSE Ok(CopyFromSlice(slice))

parse_blob_array(blob_bytes) ==
    LET slice == blob_bytes IN
    IF Len(slice) # BYTES_PER_BLOB
    THEN Err(Error("InvalidArg",
                   "Invalid blob length: expected " \o Display(BYTES_PER_BLOB)
                   \o " bytes, got " \o Display(Len(slice)) \o " bytes"))
    ELSE Ok(CopyFromSlice(slice))

-----------------------------------------------------------------------------
(***************************************************************************)
(* The external kzg library (out of the repository): what lib.rs relies on *)
(***************************************************************************)
\* A byte is the leading byte of a canonical field element unless it is 255.
IsCanonical(blob_array) == \A i \in 1..Len(blob_array) : blob_array[i] # 255

RECURSIVE Msm(_, _, _)
\* The commitment is linear in the blob: sum of blob[i] * point(i), where the
\* points come from the trusted setup.  A group element is a number here.
Msm(blob_array, settings, i) ==
    IF i = 0 THEN settings.g1_monomial[1]
    ELSE Msm(blob_array, settings, i - 1)
         + blob_array[i] * (settings.g1_monomial[1] + i)

\* load_trusted_setup_rust: the three buffers hold the points; a truncated
\* (empty) buffer or G1 buffers of different sizes are rejected.
load_trusted_setup_rust(g1_monomial_bytes, g1_lagrange_bytes, g2_monomial_bytes) ==
    IF \/ Len(g1_monomial_bytes) = 0
       \/ Len(g2_monomial_bytes) = 0
       \/ Len(g1_lagrange_bytes) # Len(g1_monomial_bytes)
    THEN Err("Invalid trusted setup length")
    ELSE Ok([g1_monomial |-> g1_monomial_bytes,
             g1_lagrange |-> g1_lagrange_bytes,
             g2_monomial |-> g2_monomial_bytes])

\* blob_to_kzg_commitment_raw: pure in (blob, settings).
blob_to_kzg_commitment_raw(blob_array, settings) ==
    IF ~IsCanonical(blob_array) THEN Err("Invalid scalar")
    ELSE Ok(Msm(blob_array, settings, Len(blob_array)))

\* G1::to_bytes: the compressed point, 48 bytes, top bit of the first set.
G1_to_bytes(point) ==
    [k \in 1..BYTES_PER_COMMITMENT |->
        IF k = 1 THEN 128 + ((point \div 256) % 64)
        ELSE IF k = 2 THEN point % 256
        ELSE (point * k) % 256]

\* compute_cells_and_kzg_proofs_raw: (cells, proofs), one proof per cell, in
\* cell order; the proofs are byte arrays of BYTES_PER_PROOF bytes.
compute_cells_and_kzg_proofs_raw(blob_array, settings) ==
    IF ~IsCanonical(blob_array) THEN Err("Invalid scalar")
    ELSE LET p == Msm(blob_array, settings, Len(blob_array)) IN
         Ok(<< [k \in 1..CELLS_PER_EXT_BLOB |-> <<(p + k) % 256, (p * k) % 256>>],
               [k \in 1..CELLS_PER_EXT_BLOB |->
                   [j \in 1..BYTES_PER_PROOF |->
                       IF j = 1 THEN 128 + k
                       ELSE IF j = 2 THEN p % 256
                       ELSE (p * k + j) % 256]] >>)

-----------------------------------------------------------------------------
(***************************************************************************)
(* KzgWrapper: construction and the single-item processors.  A processor   *)
(* yields its return value (ret) and the blob arrays it handed to the      *)
(* external function (raw), in call order.                                 *)
(***************************************************************************)
\* load_kzg falling back to an engine on a default setup when the loader fails.
load_kzg_defaulting(g1_monomial_bytes, g1_lagrange_bytes, g2_monomial_bytes) ==
    LET loaded == load_trusted_setup_rust(g1_monomial_bytes, g1_lagrange_bytes,
                                          g2_monomial_bytes) IN
    IF IsErr(loaded)
    THEN Ok([settings |-> [g1_monomial |-> <<0>>, g1_lagrange |-> <<0>>,
                           g2_monomial |-> <<0>>]])
    ELSE Ok([settings |-> loaded.value])

load_kzg(g1_monomial_bytes, g1_lagrange_bytes, g2_monomial_bytes) ==
    LET loaded == load_trusted_setup_rust(g1_monomial_bytes, g1_lagrange_bytes,
                                          g2_monomial_bytes) IN
    IF IsErr(loaded)
    THEN Err(Error("GenericFailure",
                   "Failed to load trusted setup: " \o Debug(loaded.error)))
    ELSE Ok([settings |-> loaded.value])

\* process_single_commitment computing before it looks at the validation.
process_single_commitment_eager(self, blob_bytes) ==
    LET parsed == parse_blob_array(blob_bytes)
        commitment == blob_to_kzg_commitment_raw(blob_bytes, self.settings) IN
    IF IsErr(parsed) THEN [ret |-> parsed, raw |-> <<blob_bytes>>]
    ELSE IF IsErr(commitment)
         THEN [ret |-> Err(Error("GenericFailure",
                                 "Failed to convert blob to commitment: "
                                 \o Debug(commitment.error))),
               raw |-> <<blob_bytes>>]
         ELSE [ret |-> Ok(Format0x(G1_to_bytes(commitment.value))),
               raw |-> <<blob_bytes>>]

process_single_commitment(self, blob_bytes) ==
    LET parsed == parse_blob_array(blob_bytes) IN
    IF IsErr(parsed) THEN [ret |-> parsed, raw |-> <<>>]
    ELSE LET blob_array == parsed.value
             commitment == blob_to_kzg_commitment_raw(blob_array, self.settings) IN
         IF IsErr(commitment)
         THEN [ret |-> Err(Error("GenericFailure",
                                 "Failed to convert blob to commitment: "
                                 \o Debug(commitment.error))),
               raw |-> <<blob_array>>]
         ELSE [ret |-> Ok(Format0x(G1_to_bytes(commitment.value))),
               raw |-> <<blob_array>>]

\* process_single_blob_proof handing the proofs back last first.
process_single_blob_proof_reversed(self, blob_bytes) ==
    LET parsed == parse_blob_array(blob_bytes) IN
    IF IsErr(parsed) THEN [ret |-> parsed, raw |-> <<>>]
    ELSE LET blob_array == parsed.value
             computed == compute_cells_and_kzg_proofs_raw(blob_array, self.settings) IN
         IF IsErr(computed)
         THEN [ret |-> Err(Error("GenericFailure",
                                 "Failed to compute cell proofs: " \o computed.error)),
               raw |-> <<blob_array>>]
         ELSE LET proofs == computed.value[2] IN
              [ret |-> Ok([k \in 1..Len(proofs) |->
                              Format0x(proofs[Len(proofs) + 1 - k])]),
               raw |-> <<blob_array>>]

\* process_single_blob_proof reporting a failed validation as a failed
\* computation.
process_single_blob_proof_rewrapping(self, blob_bytes) ==
    LET parsed == parse_blob_array(blob_bytes) IN
    IF IsErr(parsed)
    THEN [ret |-> Err(Error("GenericFailure",
                            "Failed to compute cell proofs: " \o parsed.error.reason)),
          raw |-> <<>>]
    ELSE LET blob_array == parsed.value
             computed == compute_cells_and_kzg_proofs_raw(blob_array, self.settings) IN
         IF IsErr(computed)
         THEN [ret |-> Err(Error("GenericFailure",
                                 "Failed to compute cell proofs: " \o computed.error)),
               raw |-> <<blob_array>>]
         ELSE LET proofs == computed.value[2] IN
              [ret |-> Ok([k \in 1..Len(proofs) |-> Format0x(proofs[k])]),
               raw |-> <<blob_array>>]

process_single_blob_proof(self, blob_bytes) ==
    LET parsed == parse_blob_array(blob_bytes) IN
    IF IsErr(parsed) THEN [ret |-> parsed, raw |-> <<>>]
    ELSE LET blob_array == parsed.value
             computed == compute_cells_and_kzg_proofs_raw(blob_array, self.settings) IN
         IF IsErr(computed)
         THEN [ret |-> Err(Error("GenericFailure",
                                 "Failed to compute cell proofs: " \o computed.error)),
               raw |-> <<blob_array>>]
         ELSE LET proofs == computed.value[2] IN
              [ret |-> Ok([k \in 1..Len(proofs) |-> Format0x(proofs[k])]),
               raw |-> <<blob_array>>]

\* process_single with the two processors mixed up.
process_single_swapped(o, self, blob_bytes) ==
    IF o = "commitment" THEN process_single_blob_proof(self, blob_bytes)
    ELSE process_single_commitment(self, blob_bytes)

\* The processor a call of operation o applies to each item.
process_single(o, self, blob_bytes) ==
    IF o = "commitment" THEN process_single_commitment(self, blob_bytes)
    ELSE process_single_blob_proof(self, blob_bytes)

\* blob_to_commitment and compute_cell_proofs
blob_to_commitment(self, blob_bytes) == process_single_commitment(self, blob_bytes)

compute_cell_proofs(self, blob_bytes) == process_single_blob_proof(self, blob_bytes)

-----------------------------------------------------------------------------
(***************************************************************************)
(* State                                                                   *)
(***************************************************************************)
VARIABLES
    setup_bytes,  \* the three buffers given to load_kzg, <<>> before it ran
    wrapper,      \* what load_kzg returned: NoValue before it ran, Ok(KzgWrapper) or Err
    kind,         \* per call: "idle", "single" or "batch"
    op,           \* per call: "commitment" or "proofs"
    blobs_bytes,  \* per call: the caller's input buffers (one for a single call)
    item,         \* per call and index: "pending", "running", "collected", "failed", "dropped"
    mapped,       \* per call and index: what the map closure returned for the item
    order,        \* per call: the indices in the order the workers completed them
    saved_error,  \* per call: collect's Mutex<Option<Error>>
    full,         \* per call: while_some's AtomicBool
    raw_calls,    \* per call: <<index, blob array>> of every call of the external function
    reads,        \* per call: <<index, thread>> of every read of a caller's buffer
    outcome,      \* per call: what the call returned to its caller, NoValue while it runs
    blob_bytes,   \* the validator on its own: the buffer given to parse_blob_array
    blob_array    \* the validator on its own: what parse_blob_array returned

callVars == <<kind, op, blobs_bytes, item, mapped, order, saved_error, full,
              raw_calls, reads, outcome>>

parseVars == <<blob_bytes, blob_array>>

vars == <<setup_bytes, wrapper, callVars, parseVars>>

\* The inputs of the model.
G1MonomialInputs == {<<>>, <<1>>, <<2>>}

G1LagrangeInputs == {<<1>>, <<1, 1>>}

G2MonomialInputs == {<<>>, <<1>>}

\* Blobs of the right length (two that compute, one that the library
\* rejects), and the empty, an undersized and an oversized buffer.
SampleBlobs ==
    {Fill(BYTES_PER_BLOB, 0), Fill(BYTES_PER_BLOB, 1), Fill(BYTES_PER_BLOB, 255),
     <<>>, Fill(BYTES_PER_BLOB - 1, 0), Fill(BYTES_PER_BLOB + 1, 0)}

\* The blobs the two concurrent calls draw from.
PairBlobs == {Fill(BYTES_PER_BLOB, 0), Fill(BYTES_PER_BLOB, 1), <<>>}

Batches(blobs, n) == UNION {[1..k -> blobs] : k \in 0..n}

Indices(c) == 1..Len(blobs_bytes[c])

Active(c) == kind[c] # "idle" /\ IsNone(outcome[c])

\* &self of the calls
self == wrapper.value

\* Items in the hands of a pool thread, over all calls.
Running ==
    UNION {{<<c, i>> : i \in {j \in Indices(c) : item[c][j] = "running"}} : c \in CallIds}

IdleCalls ==
    /\ kind = [c \in CallIds |-> "idle"]
    /\ op = [c \in CallIds |-> "commitment"]
    /\ blobs_bytes = [c \in CallIds |-> <<>>]
    /\ item = [c \in CallIds |-> <<>>]
    /\ mapped = [c \in CallIds |-> <<>>]
    /\ order = [c \in CallIds |-> <<>>]
    /\ saved_error = [c \in CallIds |-> NoValue]
    /\ full = [c \in CallIds |-> FALSE]
    /\ raw_calls = [c \in CallIds |-> <<>>]
    /\ reads = [c \in CallIds |-> <<>>]
    /\ outcome = [c \in CallIds |-> NoValue]

Init ==
    /\ setup_bytes = <<>>
    /\ wrapper = NoValue
    /\ IdleCalls
    /\ blob_bytes = <<>>
    /\ blob_array = NoValue

-----------------------------------------------------------------------------
(***************************************************************************)
(* Construction                                                            *)
(***************************************************************************)
LoadKzg ==
    /\ IsNone(wrapper)
    /\ \E g1m \in G1MonomialInputs, g1l \in G1LagrangeInputs, g2m \in G2MonomialInputs :
          /\ setup_bytes' = <<g1m, g1l, g2m>>
          /\ wrapper' = load_kzg(g1m, g1l, g2m)
    /\ UNCHANGED <<callVars, parseVars>>

(***************************************************************************)
(* A call enters the engine: the caller hands over its buffers.            *)
(***************************************************************************)
Enter(c, k, o, bufs) ==
    /\ IsOk(wrapper)
    /\ kind[c] = "idle"
    /\ kind' = [kind EXCEPT ![c] = k]
    /\ op' = [op EXCEPT ![c] = o]
    /\ blobs_bytes' = [blobs_bytes EXCEPT ![c] = bufs]
    /\ item' = [item EXCEPT ![c] = [i \in 1..Len(bufs) |-> "pending"]]
    /\ mapped' = [mapped EXCEPT ![c] = [i \in 1..Len(bufs) |-> NoValue]]
    /\ order' = [order EXCEPT ![c] = <<>>]
    /\ saved_error' = [saved_error EXCEPT ![c] = NoValue]
    /\ full' = [full EXCEPT ![c] = FALSE]
    /\ raw_calls' = [raw_calls EXCEPT ![c] = <<>>]
    /\ reads' = [reads EXCEPT ![c] = <<>>]
    /\ outcome' = [outcome EXCEPT ![c] = NoValue]
    /\ UNCHANGED <<setup_bytes, wrapper, parseVars>>

InvokeSingle(c, o, buf) == Enter(c, "single", o, <<buf>>)

InvokeBatch(c, o, bufs) == Enter(c, "batch", o, bufs)

-----------------------------------------------------------------------------
(***************************************************************************)
(* Single calls run on the caller's thread.                                *)
(***************************************************************************)
single_call(o, engine, buf) ==
    IF o = "commitment" THEN blob_to_commitment(engine, buf)
    ELSE compute_cell_proofs(engine, buf)

\* A processor that always runs on the thread of the caller.
ReaderCallerOnly(k) == "caller"

\* The thread on which the processor of a call of kind k runs, and so reads
\* the buffer it is given: a single call computes on the thread of its
\* caller, par_iter() runs the map closure on the threads of the pool.
Reader(k) == IF k = "batch" THEN "pool" ELSE "caller"

\* The entries a processor run on item i adds to the log of external calls.
RawLog(i, raw) == [k \in 1..Len(raw) |-> <<i, raw[k]>>]

\* A single call that computes on a scratch buffer shared with the other
\* calls: it takes the blob of another call that is under way.
RunSingleSharedBuffer(c) ==
    /\ Active(c)
    /\ kind[c] = "single"
    /\ LET others == {d \in CallIds \ {c} : kind[d] = "single"}
           buf == IF others = {} THEN blobs_bytes[c][1]
                  ELSE blobs_bytes[CHOOSE d \in others : TRUE][1]
           r == single_call(op[c], self, buf) IN
          /\ outcome' = [outcome EXCEPT ![c] = r.ret]
          /\ raw_calls' = [raw_calls EXCEPT ![c] = @ \o RawLog(1, r.raw)]
          /\ reads' = [reads EXCEPT ![c] = Append(@, <<1, Reader(kind[c])>>)]
    /\ UNCHANGED <<setup_bytes, wrapper, kind, op, blobs_bytes, item, mapped, order,
                   saved_error, full, parseVars>>

\* A single call that writes into the settings while it computes.
RunSingleWritingSettings(c) ==
    /\ Active(c)
    /\ kind[c] = "single"
    /\ LET r == single_call(op[c], self, blobs_bytes[c][1]) IN
          /\ outcome' = [outcome EXCEPT ![c] = r.ret]
          /\ raw_calls' = [raw_calls EXCEPT ![c] = @ \o RawLog(1, r.raw)]
          /\ reads' = [reads EXCEPT ![c] = Append(@, <<1, Reader(kind[c])>>)]
    /\ wrapper' = Ok([settings |-> [self.settings EXCEPT !.g1_lagrange = blobs_bytes[c][1]]])
    /\ UNCHANGED <<setup_bytes, kind, op, blobs_bytes, item, mapped, order,
                   saved_error, full, parseVars>>

RunSingle(c) ==
    /\ Active(c)
    /\ kind[c] = "single"
    /\ LET r == single_call(op[c], self, blobs_bytes[c][1]) IN
          /\ outcome' = [outcome EXCEPT ![c] = r.ret]
          /\ raw_calls' = [raw_calls EXCEPT ![c] = @ \o RawLog(1, r.raw)]
          /\ reads' = [reads EXCEPT ![c] = Append(@, <<1, Reader(kind[c])>>)]
    /\ UNCHANGED <<setup_bytes, wrapper, kind, op, blobs_bytes, item, mapped, order,
                   saved_error, full, parseVars>>

-----------------------------------------------------------------------------
(***************************************************************************)
(* Batch calls: blobs_bytes.par_iter().map(process).collect().  Rayon      *)
(* splits the slice among the pool's threads; collecting into a Result     *)
(* maps every item through a closure that keeps the first error in a       *)
(* mutex (saved_error) and yields None for it, stops at the first None     *)
(* (while_some, which raises the flag full that every thread reads before  *)
(* it takes an item), and concatenates the pieces in index order.          *)
(***************************************************************************)
\* A closure that keeps the last error instead of the first.
SaveErrorLast(saved, error) == error

\* The closure ok(&saved_error) on an Err: keep the error unless one is kept.
SaveError(saved, error) == IF IsNone(saved) THEN error ELSE saved

\* while_some on the closure's value: a Some is passed on unless the flag is
\* up, a None raises the flag.
ItemAfter(result, isFull) ==
    IF IsErr(result) THEN "failed"
    ELSE IF isFull THEN "dropped" ELSE "collected"

RECURSIVE CollectByCompletion(_, _, _, _)
\* A fan-in that appends the values as the workers deliver them.
CollectByCompletion(items, results, completed, i) ==
    IF i = 0 THEN <<>>
    ELSE CollectByCompletion(items, results, completed, i - 1)
         \o (IF i <= Len(completed) /\ items[completed[i]] = "collected"
             THEN <<results[completed[i]].value>> ELSE <<>>)

RECURSIVE Collect(_, _, _, _)
\* The Vec that comes out of the fan-in: the values passed on, in index order
\* whatever the order of completion.
Collect(items, results, completed, i) ==
    IF i = 0 THEN <<>>
    ELSE Collect(items, results, completed, i - 1)
         \o (IF items[i] = "collected" THEN <<results[i].value>> ELSE <<>>)

\* A fan-in that waits until every item has been processed, also the items
\* that no thread takes any more once the flag is up.
BatchCompleteAllItems(items, isFull) ==
    \A i \in 1..Len(items) : items[i] \notin {"pending", "running"}

\* A fan-in that returns as soon as the flag is up, without joining.
BatchCompleteEarly(items, isFull) ==
    isFull \/ \A i \in 1..Len(items) : items[i] \notin {"pending", "running"}

\* The fan-in has joined all its pieces: no item is in a thread's hands, and
\* an item is left untouched only because the flag was up.
BatchComplete(items, isFull) ==
    /\ \A i \in 1..Len(items) : items[i] # "running"
    /\ (\E i \in 1..Len(items) : items[i] = "pending") => isFull

\* A fan-in that refuses to return an empty collection.
CollectResultRejectsEmpty(saved, collection) ==
    IF ~IsNone(saved) THEN Err(saved)
    ELSE IF collection = <<>> THEN Err(Error("InvalidArg", "Empty batch"))
    ELSE Ok(collection)

\* A fan-in that reports a failure of its own making instead of the item's.
CollectResultSynthesized(saved, collection) ==
    IF ~IsNone(saved) THEN Err(Error("GenericFailure", "Batch item failed"))
    ELSE Ok(collection)

\* A fan-in that hands back what it collected whether or not an item failed.
CollectResultPartial(saved, collection) == Ok(collection)

\* match saved_error.into_inner() { Some(error) => Err(error), None => Ok(collection) }
CollectResult(saved, collection) ==
    IF ~IsNone(saved) THEN Err(saved) ELSE Ok(collection)

\* A pool thread takes item i: the flag is down and a thread is free.
StartItem(c, i) ==
    /\ Active(c)
    /\ kind[c] = "batch"
    /\ i \in Indices(c)
    /\ item[c][i] = "pending"
    /\ ~full[c]
    /\ Cardinality(Running) < NumThreads
    /\ item' = [item EXCEPT ![c][i] = "running"]
    /\ UNCHANGED <<setup_bytes, wrapper, kind, op, blobs_bytes, mapped, order,
                   saved_error, full, raw_calls, reads, outcome, parseVars>>

\* A fan-in whose saved error and flag are shared by all the calls.
FinishItemSharedError(c, i) ==
    /\ Active(c)
    /\ kind[c] = "batch"
    /\ i \in Indices(c)
    /\ item[c][i] = "running"
    /\ LET r == process_single(op[c], self, blobs_bytes[c][i]) IN
          /\ mapped' = [mapped EXCEPT ![c][i] = r.ret]
          /\ raw_calls' = [raw_calls EXCEPT ![c] = @ \o RawLog(i, r.raw)]
          /\ reads' = [reads EXCEPT ![c] = Append(@, <<i, Reader(kind[c])>>)]
          /\ order' = [order EXCEPT ![c] = Append(@, i)]
          /\ item' = [item EXCEPT ![c][i] = ItemAfter(r.ret, full[c])]
          /\ saved_error' = [d \in CallIds |->
                                IF IsErr(r.ret) THEN SaveError(saved_error[d], r.ret.error)
                                ELSE saved_error[d]]
          /\ full' = [d \in CallIds |-> full[d] \/ IsErr(r.ret)]
    /\ UNCHANGED <<setup_bytes, wrapper, kind, op, blobs_bytes, outcome, parseVars>>

\* A processor that takes the caller's buffer instead of borrowing it: the
\* buffer is left empty.
FinishItemTakingBuffer(c, i) ==
    /\ Active(c)
    /\ kind[c] = "batch"
    /\ i \in Indices(c)
    /\ item[c][i] = "running"
    /\ \E r \in {process_single(op[c], self, blobs_bytes[c][i])} :
          /\ mapped' = [mapped EXCEPT ![c][i] = r.ret]
          /\ raw_calls' = [raw_calls EXCEPT ![c] = @ \o RawLog(i, r.raw)]
          /\ reads' = [reads EXCEPT ![c] = Append(@, <<i, Reader(kind[c])>>)]
          /\ order' = [order EXCEPT ![c] = Append(@, i)]
          /\ item' = [item EXCEPT ![c][i] = ItemAfter(r.ret, full[c])]
          /\ saved_error' = [saved_error EXCEPT ![c] =
                                IF IsErr(r.ret) THEN SaveError(@, r.ret.error) ELSE @]
          /\ full' = [full EXCEPT ![c] = @ \/ IsErr(r.ret)]
          /\ blobs_bytes' = [blobs_bytes EXCEPT ![c][i] = <<>>]
    /\ UNCHANGED <<setup_bytes, wrapper, kind, op, outcome, parseVars>>

\* The thread runs the processor on item i and hands the value to the fan-in.
FinishItem(c, i) ==
    /\ Active(c)
    /\ kind[c] = "batch"
    /\ i \in Indices(c)
    /\ item[c][i] = "running"
    /\ \E r \in {process_single(op[c], self, blobs_bytes[c][i])} :
          /\ mapped' = [mapped EXCEPT ![c][i] = r.ret]
          /\ raw_calls' = [raw_calls EXCEPT ![c] = @ \o RawLog(i, r.raw)]
          /\ reads' = [reads EXCEPT ![c] = Append(@, <<i, Reader(kind[c])>>)]
          /\ order' = [order EXCEPT ![c] = Append(@, i)]
          /\ item' = [item EXCEPT ![c][i] = ItemAfter(r.ret, full[c])]
          /\ saved_error' = [saved_error EXCEPT ![c] =
                                IF IsErr(r.ret) THEN SaveError(@, r.ret.error) ELSE @]
          /\ full' = [full EXCEPT ![c] = @ \/ IsErr(r.ret)]
    /\ UNCHANGED <<setup_bytes, wrapper, kind, op, blobs_bytes, outcome, parseVars>>

\* collect returns to the caller.
ReturnBatch(c) ==
    /\ Active(c)
    /\ kind[c] = "batch"
    /\ BatchComplete(item[c], full[c])
    /\ outcome' = [outcome EXCEPT ![c] =
                      CollectResult(saved_error[c],
                                    Collect(item[c], mapped[c], order[c],
                                            Len(item[c])))]
    /\ UNCHANGED <<setup_bytes, wrapper, kind, op, blobs_bytes, item, mapped, order,
                   saved_error, full, raw_calls, reads, parseVars>>

-----------------------------------------------------------------------------
(***************************************************************************)
(* Specifications                                                          *)
(***************************************************************************)
\* One call at a time on an engine built by load_kzg.
Next ==
    \/ LoadKzg
    \/ \E o \in Ops, buf \in SampleBlobs : InvokeSingle("A", o, buf)
    \/ \E o \in Ops, bufs \in Batches(SampleBlobs, MaxBatch) : InvokeBatch("A", o, bufs)
    \/ RunSingle("A")
    \/ \E i \in Indices("A") : StartItem("A", i)
    \/ \E i \in Indices("A") : FinishItem("A", i)
    \/ ReturnBatch("A")

Spec == Init /\ [][Next]_vars

\* The validator on its own, on every buffer of up to BYTES_PER_BLOB + 1 bytes.
InitParse ==
    /\ setup_bytes = <<>>
    /\ wrapper = NoValue
    /\ IdleCalls
    /\ blob_bytes \in BuffersUpTo(BYTES_PER_BLOB + 1)
    /\ blob_array = NoValue

ParseBlobArray ==
    /\ IsNone(blob_array)
    /\ blob_array' = parse_blob_array(blob_bytes)
    /\ UNCHANGED <<setup_bytes, wrapper, callVars, blob_bytes>>

NextParse == ParseBlobArray

SpecParse == InitParse /\ [][NextParse]_vars

\* Two calls side by side on one engine: call A is any call, call B a call
\* on one item (a single call, or a batch of at most one blob).
InitPair ==
    /\ setup_bytes = <<<<1>>, <<1>>, <<1>>>>
    /\ wrapper = load_kzg(setup_bytes[1], setup_bytes[2], setup_bytes[3])
    /\ IdleCalls
    /\ blob_bytes = <<>>
    /\ blob_array = NoValue

PairBatches(c) ==
    IF c = "A" THEN Batches(PairBlobs, MaxBatch) ELSE Batches(PairBlobs, 1)

NextPair ==
    \E c \in CallIds :
        \/ \E o \in Ops, buf \in PairBlobs : InvokeSingle(c, o, buf)
        \/ \E o \in Ops, bufs \in PairBatches(c) : InvokeBatch(c, o, bufs)
        \/ RunSingle(c)
        \/ \E i \in Indices(c) : StartItem(c, i)
        \/ \E i \in Indices(c) : FinishItem(c, i)
        \/ ReturnBatch(c)

SpecPair == InitPair /\ [][NextPair]_vars

\* Calls one after another and side by side: as SpecPair, and the caller of
\* call B may drop what it got and call again, any number of times.
Release(c) ==
    /\ kind[c] # "idle"
    /\ ~IsNone(outcome[c])
    /\ kind' = [kind EXCEPT ![c] = "idle"]
    /\ op' = [op EXCEPT ![c] = "commitment"]
    /\ blobs_bytes' = [blobs_bytes EXCEPT ![c] = <<>>]
    /\ item' = [item EXCEPT ![c] = <<>>]
    /\ mapped' = [mapped EXCEPT ![c] = <<>>]
    /\ order' = [order EXCEPT ![c] = <<>>]
    /\ saved_error' = [saved_error EXCEPT ![c] = NoValue]
    /\ full' = [full EXCEPT ![c] = FALSE]
    /\ raw_calls' = [raw_calls EXCEPT ![c] = <<>>]
    /\ reads' = [reads EXCEPT ![c] = <<>>]
    /\ outcome' = [outcome EXCEPT ![c] = NoValue]
    /\ UNCHANGED <<setup_bytes, wrapper, parseVars>>

NextRepeat ==
    \/ NextPair
    \/ Release("B")

SpecRepeat == InitPair /\ [][NextRepeat]_vars

-----------------------------------------------------------------------------
(***************************************************************************)
(* Properties                                                              *)
(***************************************************************************)
Returned(c) == kind[c] # "idle" /\ ~IsNone(outcome[c])

BatchOk(c) == kind[c] = "batch" /\ IsOk(outcome[c])

BatchFailed(c) == kind[c] = "batch" /\ IsErr(outcome[c])

\* What the processor of call c returns on the call's input i.
Processed(c, i) == process_single(op[c], self, blobs_bytes[c][i]).ret

\* The inputs of call c whose processing fails.
FailingInputs(c) == {i \in Indices(c) : IsErr(Processed(c, i))}

\* C1: a batch call that succeeded on N blobs returns N values, and the value
\* at index i is the one a worker computed from input i, whatever the order
\* in which the workers completed.
C1_OutputFollowsInputOrder ==
    \A c \in CallIds :
        BatchOk(c) =>
            /\ DOMAIN outcome[c].value = Indices(c)
            /\ \A i \in Indices(c) :
                  /\ IsOk(mapped[c][i])
                  /\ outcome[c].value[i] = mapped[c][i].value

\* A batch of two different blobs succeeded although the second item was
\* completed first.
C1_Witness ==
    /\ BatchOk("A")
    /\ Len(blobs_bytes["A"]) = 2
    /\ blobs_bytes["A"][1] # blobs_bytes["A"][2]
    /\ order["A"] = <<2, 1>>

\* C2: a batch call returns either a success holding one successful item
\* result per input, or a single error and no item result; it never succeeds
\* when one of its inputs fails.
C2_AllOrNothing ==
    \A c \in CallIds :
        (kind[c] = "batch" /\ Returned(c)) =>
            /\ \/ /\ IsOk(outcome[c])
                  /\ DOMAIN outcome[c] = {"ok", "value"}
                  /\ Len(outcome[c].value) = Len(blobs_bytes[c])
                  /\ \A i \in Indices(c) : item[c][i] = "collected" /\ IsOk(mapped[c][i])
               \/ /\ IsErr(outcome[c])
                  /\ DOMAIN outcome[c] = {"ok", "error"}
                  /\ DOMAIN outcome[c].error = {"status", "reason"}
            /\ (FailingInputs(c) # {}) => IsErr(outcome[c])

\* A batch failed on a buffer of the wrong length after a valid sibling had
\* been computed and collected.
C2_Witness ==
    /\ BatchFailed("A")
    /\ \E i, j \in Indices("A") :
          /\ Len(blobs_bytes["A"][i]) # BYTES_PER_BLOB
          /\ item["A"][i] = "failed"
          /\ item["A"][j] = "collected"

\* C3: parse_blob_array succeeds exactly on buffers of BYTES_PER_BLOB bytes,
\* then returns the same bytes, and otherwise fails with InvalidArg and a
\* message giving BYTES_PER_BLOB as expected and the buffer's length as actual.
C3_ParseBlobArray ==
    ~IsNone(blob_array) =>
        /\ IsOk(blob_array) <=> (Len(blob_bytes) = BYTES_PER_BLOB)
        /\ IsOk(blob_array) => blob_array.value = blob_bytes
        /\ IsErr(blob_array) =>
              /\ blob_array.error.status = "InvalidArg"
              /\ blob_array.error.reason =
                    "Invalid blob length: expected " \o ToString(BYTES_PER_BLOB)
                    \o " bytes, got " \o ToString(Len(blob_bytes)) \o " bytes"

\* An oversized buffer was rejected.
C3_Witness ==
    /\ Len(blob_bytes) = BYTES_PER_BLOB + 1
    /\ IsErr(blob_array)

\* The invalid-length error of a buffer.
InvalidBlobLength(buf) ==
    Error("InvalidArg",
          "Invalid blob length: expected " \o ToString(BYTES_PER_BLOB)
          \o " bytes, got " \o ToString(Len(buf)) \o " bytes")

\* C4: the external function is never called for a buffer whose length is
\* not BYTES_PER_BLOB, in a single call or for an item of a batch, and such a
\* buffer yields the invalid-length error.
C4_NoCryptoOnInvalidLength ==
    \A c \in CallIds :
        /\ \A k \in 1..Len(raw_calls[c]) :
              Len(blobs_bytes[c][raw_calls[c][k][1]]) = BYTES_PER_BLOB
        /\ (kind[c] = "single" /\ Returned(c)
                /\ Len(blobs_bytes[c][1]) # BYTES_PER_BLOB) =>
              /\ outcome[c] = Err(InvalidBlobLength(blobs_bytes[c][1]))
              /\ raw_calls[c] = <<>>
        /\ kind[c] = "batch" =>
              \A i \in Indices(c) :
                  (~IsNone(mapped[c][i]) /\ Len(blobs_bytes[c][i]) # BYTES_PER_BLOB) =>
                      mapped[c][i] = Err(InvalidBlobLength(blobs_bytes[c][i]))

\* A batch processed an empty buffer and a valid blob: only the valid blob
\* reached the external function.
C4_Witness ==
    /\ kind["A"] = "batch"
    /\ Len(raw_calls["A"]) = 1
    /\ \E i \in Indices("A") :
          blobs_bytes["A"][i] = <<>> /\ ~IsNone(mapped["A"][i])

\* C5: a successful batch holds at index i what the single operation returns
\* on blob i.
C5_BatchEqualsSingle ==
    \A c \in CallIds :
        BatchOk(c) =>
            /\ DOMAIN outcome[c].value = Indices(c)
            /\ \A i \in Indices(c) :
                  LET single == single_call(op[c], self, blobs_bytes[c][i]).ret IN
                  IsOk(single) /\ outcome[c].value[i] = single.value

\* A batch of cell proofs on two different blobs succeeded.
C5_Witness ==
    /\ BatchOk("A")
    /\ op["A"] = "proofs"
    /\ Len(blobs_bytes["A"]) = 2
    /\ blobs_bytes["A"][1] # blobs_bytes["A"][2]

\* The item of call c whose failure the fan-in met first.
FirstFailure(c) ==
    LET failures == {k \in 1..Len(order[c]) : IsErr(mapped[c][order[c][k]])} IN
    order[c][CHOOSE k \in failures : \A j \in failures : k <= j]

\* C6: the error of a failed batch is the error the processor produced for
\* the item that failed first in this call, an input that does fail; when one
\* input alone fails, it is that input's error.
C6_FirstGenuineError ==
    \A c \in CallIds :
        BatchFailed(c) =>
            /\ \E i \in Indices(c) : IsErr(mapped[c][i])
            /\ LET f == FirstFailure(c) IN
                  /\ f \in FailingInputs(c)
                  /\ mapped[c][f] = Processed(c, f)
                  /\ outcome[c].error = Processed(c, f).error
            /\ Cardinality(FailingInputs(c)) = 1 =>
                  \A i \in FailingInputs(c) : outcome[c].error = Processed(c, i).error

\* A batch failed after two of its items had failed with different errors.
C6_Witness ==
    /\ BatchFailed("A")
    /\ \E i, j \in Indices("A") :
          /\ item["A"][i] = "failed"
          /\ item["A"][j] = "failed"
          /\ mapped["A"][i].error # mapped["A"][j].error

\* C7 as stated: the error of a failed batch is a BatchItemFailed error whose
\* cause is the error of an item.
C7_BatchItemFailedWrapper ==
    \A c \in CallIds :
        BatchFailed(c) =>
            /\ "cause" \in DOMAIN outcome[c].error
            /\ \E i \in Indices(c) :
                  IsErr(mapped[c][i]) /\ outcome[c].error.cause = mapped[c][i].error

\* C7 amended: the error of a failed batch is the napi error of one failed
\* item as the processor made it (status InvalidArg or GenericFailure, the
\* item's message, no wrapper, no index), and the failure ends the batch: the
\* flag is up, so that no further item is taken.
C7_ItemErrorUnwrapped ==
    \A c \in CallIds :
        BatchFailed(c) =>
            /\ DOMAIN outcome[c].error = {"status", "reason"}
            /\ outcome[c].error.status \in {"InvalidArg", "GenericFailure"}
            /\ \E i \in Indices(c) :
                  item[c][i] = "failed" /\ outcome[c].error = mapped[c][i].error
            /\ full[c]

\* A batch failed and returned with an item that was never taken.
C7_Witness ==
    /\ BatchFailed("A")
    /\ \E i \in Indices("A") : item["A"][i] = "pending"

\* C8: when a batch call has returned, none of its items is in a thread's
\* hands; a success comes after every item was completed, a failure after an
\* item failed; what a call hands back is a final Ok or Err.
C8_ReturnsAfterWork ==
    \A c \in CallIds :
        /\ (kind[c] = "batch" /\ Returned(c)) =>
              /\ \A i \in Indices(c) : item[c][i] # "running"
              /\ IsOk(outcome[c]) =>
                    \A i \in Indices(c) : ~IsNone(mapped[c][i]) /\ i \in {order[c][k] : k \in 1..Len(order[c])}
              /\ IsErr(outcome[c]) => \E i \in Indices(c) : item[c][i] = "failed"
        /\ Returned(c) => (IsOk(outcome[c]) \/ IsErr(outcome[c]))

\* A failed batch returned only after a sibling that was in flight when the
\* failure came had finished.
C8_Witness ==
    /\ BatchFailed("A")
    /\ \E i \in Indices("A") : item["A"][i] = "dropped"

\* C9: once load_kzg has built the engine, no step of any call changes it.
C9_SettingsNeverWritten ==
    [][IsOk(wrapper) => wrapper' = wrapper]_vars

\* One call has succeeded and the other failed on the engine as load_kzg built it.
C9_Witness ==
    /\ wrapper = load_kzg(<<1>>, <<1>>, <<1>>)
    /\ Returned("A") /\ IsOk(outcome["A"])
    /\ Returned("B") /\ IsErr(outcome["B"])

\* C10: a call that ran beside another returns what it returns alone: a
\* single call the processor's value on its blob, a batch the values of its
\* own items or the error of one of its own failing items; and the blobs it
\* handed to the external function are copies of its own inputs.
C10_CallsIndependent ==
    \A c \in CallIds :
        /\ \A k \in 1..Len(raw_calls[c]) :
              raw_calls[c][k][2] = blobs_bytes[c][raw_calls[c][k][1]]
        /\ (kind[c] = "single" /\ Returned(c)) =>
              outcome[c] = single_call(op[c], self, blobs_bytes[c][1]).ret
        /\ (kind[c] = "batch" /\ Returned(c)) =>
              IF FailingInputs(c) = {}
              THEN /\ IsOk(outcome[c])
                   /\ DOMAIN outcome[c].value = Indices(c)
                   /\ \A i \in Indices(c) : outcome[c].value[i] = Processed(c, i).value
              ELSE /\ IsErr(outcome[c])
                   /\ \E i \in FailingInputs(c) : outcome[c].error = Processed(c, i).error

\* Call B failed and returned while call A, a batch on other blobs, had
\* collected one item and had another in a thread's hands.
C10_Witness ==
    /\ Active("A")
    /\ \E i, j \in Indices("A") : item["A"][i] = "collected" /\ item["A"][j] = "running"
    /\ Returned("B") /\ IsErr(outcome["B"])

LoaderResult ==
    load_trusted_setup_rust(setup_bytes[1], setup_bytes[2], setup_bytes[3])

\* C12: load_kzg returns an engine that holds the setup the external loader
\* returned, or, when the loader rejects the buffers, a single error with the
\* loader's cause and no engine; no operation runs without an engine.
C12_LoadAllOrNothing ==
    /\ IsNone(wrapper) => \A c \in CallIds : kind[c] = "idle"
    /\ ~IsNone(wrapper) =>
          /\ Len(setup_bytes) = 3
          /\ IF IsOk(LoaderResult)
             THEN wrapper = Ok([settings |-> LoaderResult.value])
             ELSE /\ wrapper = Err(Error("GenericFailure",
                                         "Failed to load trusted setup: \""
                                         \o LoaderResult.error \o "\""))
                  /\ \A c \in CallIds : kind[c] = "idle"

\* load_kzg failed on a truncated G2 buffer.
C12_Witness ==
    /\ IsErr(wrapper)
    /\ setup_bytes[1] = <<1>> /\ setup_bytes[2] = <<1>> /\ setup_bytes[3] = <<>>

\* The value of a lowercase hexadecimal digit.
HexValue ==
    [ch \in {"0", "1", "2", "3", "4", "5", "6", "7", "8", "9",
             "a", "b", "c", "d", "e", "f"} |->
        CASE ch = "0" -> 0 [] ch = "1" -> 1 [] ch = "2" -> 2 [] ch = "3" -> 3
          [] ch = "4" -> 4 [] ch = "5" -> 5 [] ch = "6" -> 6 [] ch = "7" -> 7
          [] ch = "8" -> 8 [] ch = "9" -> 9 [] ch = "a" -> 10 [] ch = "b" -> 11
          [] ch = "c" -> 12 [] ch = "d" -> 13 [] ch = "e" -> 14 [] ch = "f" -> 15]

\* str is 0x followed by two lowercase hexadecimal digits for each of bytes,
\* and nothing else.
IsHexOf(str, bytes) ==
    /\ Len(str) = 2 + 2 * Len(bytes)
    /\ str[1] = "0" /\ str[2] = "x"
    /\ \A k \in 1..Len(bytes) :
          /\ str[2 * k + 1] \in DOMAIN HexValue
          /\ str[2 * k + 2] \in DOMAIN HexValue
          /\ 16 * HexValue[str[2 * k + 1]] + HexValue[str[2 * k + 2]] = bytes[k]

\* C13: on a blob of BYTES_PER_BLOB bytes that the external function accepts,
\* blob_to_commitment returns 0x and the 96 lowercase hexadecimal digits of
\* the 48 bytes of the commitment.
C13_CommitmentHex ==
    \A c \in CallIds :
        (/\ kind[c] = "single" /\ op[c] = "commitment" /\ Returned(c)
         /\ Len(blobs_bytes[c][1]) = BYTES_PER_BLOB
         /\ IsOk(blob_to_kzg_commitment_raw(blobs_bytes[c][1], self.settings))) =>
            /\ IsOk(outcome[c])
            /\ Len(outcome[c].value) = 98
            /\ IsHexOf(outcome[c].value,
                       G1_to_bytes(blob_to_kzg_commitment_raw(blobs_bytes[c][1],
                                                              self.settings).value))

\* blob_to_commitment returned a string with a letter digit in it.
C13_Witness ==
    /\ kind["A"] = "single" /\ op["A"] = "commitment"
    /\ IsOk(outcome["A"])
    /\ \E k \in 1..Len(outcome["A"].value) : outcome["A"].value[k] = "c"

\* What the external function of operation o answers on a blob.
LibraryResult(o, blob) ==
    IF o = "commitment" THEN blob_to_kzg_commitment_raw(blob, self.settings)
    ELSE compute_cells_and_kzg_proofs_raw(blob, self.settings)

\* The error of operation o for a failure of the external function with a cause.
ComputationFailed(o, cause) ==
    IF o = "commitment"
    THEN Error("GenericFailure",
               "Failed to convert blob to commitment: \"" \o cause \o "\"")
    ELSE Error("GenericFailure", "Failed to compute cell proofs: " \o cause)

\* C14: a single call validates, then computes, then encodes.  A buffer of
\* the wrong length gives the invalid-length error as the validator made it
\* and no computation; on a buffer of the right length the external function
\* runs once, on the validated copy, and its failure gives the operation's
\* computation error with the library's cause; anything else is a success.
C14_ErrorsKeepTheirStage ==
    \A c \in CallIds :
        (kind[c] = "single" /\ Returned(c)) =>
            LET buf == blobs_bytes[c][1] IN
            IF Len(buf) # BYTES_PER_BLOB
            THEN /\ outcome[c] = parse_blob_array(buf)
                 /\ IsErr(outcome[c])
                 /\ outcome[c].error.status = "InvalidArg"
                 /\ raw_calls[c] = <<>>
            ELSE /\ raw_calls[c] = << <<1, buf>> >>
                 /\ IF IsErr(LibraryResult(op[c], buf))
                    THEN outcome[c] =
                            Err(ComputationFailed(op[c], LibraryResult(op[c], buf).error))
                    ELSE IsOk(outcome[c])

\* compute_cell_proofs failed on a blob of the right length that the library
\* rejects.
C14_Witness ==
    /\ kind["A"] = "single" /\ op["A"] = "proofs"
    /\ Len(blobs_bytes["A"][1]) = BYTES_PER_BLOB
    /\ IsErr(outcome["A"])

\* C15: on a valid blob compute_cell_proofs returns one string per proof of
\* the external function, string k being 0x and the digits of proof k, and
\* no string is the encoding of a cell.
C15_ProofsInCellOrder ==
    \A c \in CallIds :
        (kind[c] = "single" /\ op[c] = "proofs" /\ Returned(c) /\ IsOk(outcome[c])) =>
            LET computed == compute_cells_and_kzg_proofs_raw(blobs_bytes[c][1],
                                                             self.settings).value
                cells == computed[1]
                proofs == computed[2] IN
            /\ Len(proofs) = CELLS_PER_EXT_BLOB
            /\ Len(outcome[c].value) = Len(proofs)
            /\ \A k \in 1..Len(proofs) : IsHexOf(outcome[c].value[k], proofs[k])
            /\ \A k \in 1..Len(proofs), j \in 1..Len(cells) :
                  ~IsHexOf(outcome[c].value[k], cells[j])

\* compute_cell_proofs succeeded on a blob that is not all zero.
C15_Witness ==
    /\ kind["A"] = "single" /\ op["A"] = "proofs"
    /\ IsOk(outcome["A"])
    /\ blobs_bytes["A"][1] = Fill(BYTES_PER_BLOB, 1)

\* C16 as stated: no thread of the pool reads a buffer of the caller.
C16_OnlyCallerReadsBuffers ==
    \A c \in CallIds :
        \A k \in 1..Len(reads[c]) : reads[c][k][2] = "caller"

\* C16 amended: in a batch call each item is validated on the pool thread
\* that processes it: that thread reads the caller's buffer, once, and makes
\* the owned copy there; the external function is given the copy only; and
\* all these reads are over when the call returns.
C16_WorkerValidatesAndCopies ==
    \A c \in CallIds :
        kind[c] = "batch" =>
            /\ \A k \in 1..Len(reads[c]) :
                  /\ reads[c][k][2] = "pool"
                  /\ reads[c][k][1] = order[c][k]
            /\ Len(reads[c]) = Len(order[c])
            /\ \A k \in 1..Len(raw_calls[c]) :
                  /\ Len(raw_calls[c][k][2]) = BYTES_PER_BLOB
                  /\ raw_calls[c][k][2] = blobs_bytes[c][raw_calls[c][k][1]]
                  /\ \E j \in 1..Len(reads[c]) : reads[c][j][1] = raw_calls[c][k][1]
            /\ Returned(c) => \A i \in Indices(c) : item[c][i] # "running"

\* Two pool threads have read their items of a batch and handed copies to the
\* external function.
C16_Witness ==
    /\ kind["A"] = "batch"
    /\ Len(reads["A"]) = 2
    /\ Len(raw_calls["A"]) = 2
    /\ Returned("A")

\* The pool keeps working: a thread that can take an item does, a thread that
\* holds an item finishes it (the external functions terminate), and a fan-in
\* whose pieces are all joined returns.
Fairness ==
    /\ WF_vars(\E i \in Indices("A") : StartItem("A", i))
    /\ WF_vars(\E i \in Indices("A") : FinishItem("A", i))
    /\ WF_vars(ReturnBatch("A"))

\* Buffers of a batch that can fail: a valid blob, a blob the library rejects
\* and a buffer of the wrong length.
FailingBlobs == {Fill(BYTES_PER_BLOB, 1), Fill(BYTES_PER_BLOB, 255), <<>>}

\* Batch calls alone, on a loaded engine.
NextBatch ==
    \/ \E o \in Ops, bufs \in Batches(FailingBlobs, MaxBatch) : InvokeBatch("A", o, bufs)
    \/ \E i \in Indices("A") : StartItem("A", i)
    \/ \E i \in Indices("A") : FinishItem("A", i)
    \/ ReturnBatch("A")

SpecLive == InitPair /\ [][NextBatch]_vars /\ Fairness

\* C17: every batch call eventually returns, with a success or an error,
\* also when items fail while others are in a thread's hands.
C17_BatchReturns ==
    (kind["A"] = "batch") ~> (kind["A"] = "batch" /\ Returned("A"))

\* A batch has returned its error after the item that failed first and an
\* item that a thread held at that moment.
C17_Witness ==
    /\ BatchFailed("A")
    /\ Len(order["A"]) = 2
    /\ item["A"][order["A"][1]] = "failed"
    /\ item["A"][order["A"][2]] # "collected"

\* C18: a batch call on an empty sequence returns the empty sequence as a
\* success; nothing was validated and no function of the library was called.
C18_EmptyBatch ==
    \A c \in CallIds :
        (kind[c] = "batch" /\ blobs_bytes[c] = <<>>) =>
            /\ reads[c] = <<>>
            /\ raw_calls[c] = <<>>
            /\ IsNone(saved_error[c]) /\ ~full[c]
            /\ Returned(c) => outcome[c] = Ok(<<>>)

\* An empty batch has returned.
C18_Witness ==
    /\ kind["A"] = "batch"
    /\ blobs_bytes["A"] = <<>>
    /\ Returned("A")
    /\ outcome["A"] = Ok(<<>>)

\* The caller of call A hands the very same buffers, in the same sequence, to
\* the same operation once more: the second call runs in slot B.
Resubmit ==
    /\ Returned("A")
    /\ Enter("B", kind["A"], op["A"], blobs_bytes["A"])

NextResubmit ==
    \/ \E o \in Ops, buf \in FailingBlobs : InvokeSingle("A", o, buf)
    \/ \E o \in Ops, bufs \in Batches(FailingBlobs, MaxBatch) : InvokeBatch("A", o, bufs)
    \/ Resubmit
    \/ \E c \in CallIds :
          \/ RunSingle(c)
          \/ \E i \in Indices(c) : StartItem(c, i)
          \/ \E i \in Indices(c) : FinishItem(c, i)
          \/ ReturnBatch(c)

SpecResubmit == InitPair /\ [][NextResubmit]_vars

\* Calls c and d have both returned, and were given equal buffers in the same
\* sequence for the same operation.
SameInput(c, d) ==
    /\ Returned(c) /\ Returned(d)
    /\ kind[c] = kind[d]
    /\ op[c] = op[d]
    /\ blobs_bytes[c] = blobs_bytes[d]

\* The errors of the inputs of call c whose processing fails.
FailureErrors(c) == {Processed(c, i).error : i \in FailingInputs(c)}

\* From the moment a call is given its buffers, no step changes a byte of
\* them, their number or their order.
InputsFrame ==
    \A c \in CallIds :
        (kind[c] # "idle" /\ kind'[c] # "idle") => blobs_bytes'[c] = blobs_bytes[c]

\* C19 as stated: the buffers of a call stay as they were, and the same
\* buffers submitted again give the same outcome.
C19_ResubmitSameOutcome ==
    /\ [][InputsFrame]_vars
    /\ [](\A c, d \in CallIds : SameInput(c, d) => outcome[c] = outcome[d])

\* C19 amended: the buffers of a call stay as they were; the same buffers
\* submitted again give the same outcome when at most one error is possible,
\* and otherwise each call returns the error of one of the failing inputs.
C19_InputsUnchanged ==
    /\ [][InputsFrame]_vars
    /\ [](\A c, d \in CallIds :
             SameInput(c, d) =>
                 IF Cardinality(FailureErrors(c)) <= 1
                 THEN outcome[c] = outcome[d]
                 ELSE /\ IsErr(outcome[c]) /\ outcome[c].error \in FailureErrors(c)
                      /\ IsErr(outcome[d]) /\ outcome[d].error \in FailureErrors(c))

\* A failed batch of two buffers was submitted again and has returned: the
\* buffers of the first call are what the second call was given, and the two
\* calls report different items.
C19_Witness ==
    /\ SameInput("A", "B")
    /\ kind["A"] = "batch"
    /\ Len(blobs_bytes["A"]) = 2
    /\ IsErr(outcome["A"]) /\ IsErr(outcome["B"])
    /\ outcome["A"] # outcome["B"]

====
